---- MODULE Spec2Model ----
(***************************************************************************)
(* Model of scripts/generate-spec-txt.ts: the navigation-driven            *)
(* aggregator that builds mcp-spec.txt (and mcp-spec-full.txt) from        *)
(* docs.json and the specification pages on disk.                          *)
(*                                                                         *)
(* Strings are sequences of tokens.  A token is one character ("-", "\n",  *)
(* " ", "/") or an indivisible run of ordinary characters ("docs",         *)
(* "2025-06-18", "B1").  Concatenation, slicing, searching and replacing   *)
(* work on these sequences the way the JavaScript string methods work on   *)
(* characters.                                                             *)
(***************************************************************************)
EXTENDS Integers, Sequences, FiniteSets, TLC

\* ------------------------------------------------------------------------
\* Bounds of the model
\* ------------------------------------------------------------------------
MaxLen == 7
MaxLineLen == 4
MaxMetaLines == 1
MaxBodyLen == 2
MaxNodes == 4
MaxGroups == 2

\* ------------------------------------------------------------------------
\* Generic string helpers
\* ------------------------------------------------------------------------
NULL == <<"<null>">>

\* fs.readFile rejects: the file is absent, or cannot be read
ENOENT == <<"<ENOENT>">>

Truthy(s) == s # NULL /\ s # <<>>

Range(s) == {s[n] : n \in DOMAIN s}

MinOf(S) == CHOOSE x \in S : \A y \in S : x <= y

MaxOf(S) == CHOOSE x \in S : \A y \in S : y <= x

StartsWith(s, t) == Len(s) >= Len(t) /\ SubSeq(s, 1, Len(t)) = t

OccursAt(s, t, p) == p + Len(t) - 1 <= Len(s) /\ SubSeq(s, p, p + Len(t) - 1) = t

\* String.prototype.replace(pattern: string, ''): removes the first occurrence
ReplaceFirst(s, t) ==
    LET hits == {p \in 1..Len(s) : OccursAt(s, t, p)}
    IN  IF t = <<>> \/ hits = {} THEN s
        ELSE LET p == MinOf(hits)
             IN  SubSeq(s, 1, p - 1) \o SubSeq(s, p + Len(t), Len(s))

\* Array.prototype.join(sep)
RECURSIVE Join(_, _)
Join(parts, sep) ==
    IF parts = <<>> THEN <<>>
    ELSE IF Len(parts) = 1 THEN parts[1]
    ELSE parts[1] \o sep \o Join(Tail(parts), sep)

SeqsUpTo(S, n) == UNION {[1..m -> S] : m \in 0..n}

\* ------------------------------------------------------------------------
\* cleanMdxContent
\* ------------------------------------------------------------------------
Whitespace == {" ", "\n", "\t"}

IsDashes(s, p) == OccursAt(s, <<"-", "-", "-">>, p)

\* number of consecutive "\n" tokens of s starting at position p
RECURSIVE NewlineRun(_, _)
NewlineRun(s, p) ==
    IF p <= Len(s) /\ s[p] = "\n" THEN 1 + NewlineRun(s, p + 1) ELSE 0

\* /^---[\s\S]*?---\n*/ : index of the last token of the match, 0 if no match
FrontmatterMatchEnd(s) ==
    LET closers == {p \in 4..Len(s) : IsDashes(s, p)}
    IN  IF ~IsDashes(s, 1) \/ closers = {} THEN 0
        ELSE LET e == MinOf(closers) + 2
             IN  e + NewlineRun(s, e + 1)

\* a trim that drops at most one whitespace token at each end
TrimOneEach(s) ==
    LET from == IF Len(s) >= 1 /\ s[1] \in Whitespace THEN 2 ELSE 1
        to == IF Len(s) >= from /\ s[Len(s)] \in Whitespace THEN Len(s) - 1 ELSE Len(s)
    IN  SubSeq(s, from, to)

\* String.prototype.trim
Trim(s) ==
    LET keep == {p \in 1..Len(s) : s[p] \notin Whitespace}
    IN  IF keep = {} THEN <<>> ELSE SubSeq(s, MinOf(keep), MaxOf(keep))

cleanMdxContent(content) ==
    LET cleanContent == SubSeq(content, FrontmatterMatchEnd(content) + 1, Len(content))
    IN  Trim(cleanContent)

\* ------------------------------------------------------------------------
\* extractPagePaths
\* ------------------------------------------------------------------------
LeafItem(ref) == [type |-> "string", value |-> ref]

GroupItem(name, pages) == [type |-> "object", group |-> name, pages |-> pages]

BareItem(name) == [type |-> "object", group |-> name]

\* path.normalize for the separators that occur here: runs of "/" collapse
RECURSIVE PathNormalize(_)
PathNormalize(p) ==
    IF Len(p) < 2 THEN p
    ELSE IF p[1] = "/" /\ p[2] = "/" THEN PathNormalize(Tail(p))
    ELSE <<p[1]>> \o PathNormalize(Tail(p))

\* path.join(basePath, item): empty segments are dropped, the rest is
\* joined with "/" and normalized; an empty result is "."
PathJoin(basePath, item) ==
    LET joined == IF basePath = <<>> THEN item
                  ELSE IF item = <<>> THEN basePath
                  ELSE basePath \o <<"/">> \o item
    IN  IF joined = <<>> THEN <<".">> ELSE PathNormalize(joined)

DocsRoot == <<"..", "/", "docs", "/">>

SpecRoot == <<"..", "/", "docs", "/", "specification">>

FullPath(item, basePath) ==
    IF StartsWith(item, <<"/">>) THEN SpecRoot \o Tail(item)
    ELSE DocsRoot \o PathJoin(basePath, item)

\* a flattener that puts a nested group's pages after the group's later siblings
RECURSIVE extractPagePathsNestedLast(_, _)
extractPagePathsNestedLast(items, basePath) ==
    IF items = <<>> THEN <<>>
    ELSE LET item == Head(items)
             rest == extractPagePathsNestedLast(Tail(items), basePath)
         IN  IF item.type = "string" THEN <<FullPath(item.value, basePath)>> \o rest
             ELSE IF "pages" \in DOMAIN item
                  THEN rest \o extractPagePathsNestedLast(item.pages, basePath)
                  ELSE rest

RECURSIVE extractPagePaths(_, _)
extractPagePaths(items, basePath) ==
    IF items = <<>> THEN <<>>
    ELSE LET item == Head(items)
             here == IF item.type = "string" THEN <<FullPath(item.value, basePath)>>
                     ELSE IF "pages" \in DOMAIN item
                          THEN extractPagePaths(item.pages, basePath)
                          ELSE <<>>
         IN  here \o extractPagePaths(Tail(items), basePath)

\* ------------------------------------------------------------------------
\* Labels, dates and version selection
\* ------------------------------------------------------------------------
\* the characters of the date tokens, for lexicographic comparison
DateChars ==
    [d \in {"2024-11-05", "2025-03-26", "2025-06-18", "2025-11-25"} |->
        CASE d = "2024-11-05" -> <<2, 0, 2, 4, 1, 1, 0, 5>>
          [] d = "2025-03-26" -> <<2, 0, 2, 5, 0, 3, 2, 6>>
          [] d = "2025-06-18" -> <<2, 0, 2, 5, 0, 6, 1, 8>>
          [] d = "2025-11-25" -> <<2, 0, 2, 5, 1, 1, 2, 5>>]

\* a token matching /\d{4}-\d{2}-\d{2}/
IsDateToken(t) == t \in DOMAIN DateChars

RECURSIVE LexLess(_, _)
LexLess(a, b) ==
    IF b = <<>> THEN FALSE
    ELSE IF a = <<>> THEN TRUE
    ELSE IF a[1] # b[1] THEN a[1] < b[1]
    ELSE LexLess(Tail(a), Tail(b))

\* default comparison of Array.prototype.sort on two date strings
StrLess(a, b) == LexLess(DateChars[a], DateChars[b])

RECURSIVE InsertSorted(_, _)
InsertSorted(x, s) ==
    IF s = <<>> THEN <<x>>
    ELSE IF StrLess(s[1], x) THEN <<s[1]>> \o InsertSorted(x, Tail(s))
    ELSE <<x>> \o s

\* Array.prototype.sort()
RECURSIVE Sort(_)
Sort(s) == IF s = <<>> THEN <<>> ELSE InsertSorted(s[1], Sort(Tail(s)))

\* Array.prototype.reverse()
Reverse(s) == [n \in 1..Len(s) |-> s[Len(s) + 1 - n]]

\* String.prototype.toLowerCase on a tab label
LowerToken(t) ==
    CASE t = "Specification" -> "specification"
      [] t = "SPECIFICATION" -> "specification"
      [] t = "Documentation" -> "documentation"
      [] OTHER -> t

ToLowerCase(s) == [n \in 1..Len(s) |-> LowerToken(s[n])]

\* String.prototype.includes(token)
Includes(s, t) == t \in Range(s)

\* label.match(/(\d{4}-\d{2}-\d{2})/): the first date of the label, or NULL
DateMatch(label) ==
    LET hits == {n \in 1..Len(label) : IsDateToken(label[n])}
    IN  IF hits = {} THEN NULL ELSE <<label[MinOf(hits)]>>

\* group.group.includes('Latest') || group.group.includes('2025-03-26')
IsMarked(label) == Includes(label, "Latest") \/ Includes(label, "2025-03-26")

\* tabs.find(tab => tab.tab.toLowerCase() === 'specification'): index or 0
FindSpecTab(config) ==
    LET hits == {n \in 1..Len(config.tabs) :
                    ToLowerCase(config.tabs[n].tab) = <<"specification">>}
    IN  IF hits = {} THEN 0 ELSE MinOf(hits)

Thrown(msg) == [error |-> msg, value |-> NULL]

Returned(v) == [error |-> "", value |-> v]

findLatestSpecVersion(config) ==
    LET t == FindSpecTab(config)
    IN  IF t = 0 THEN Thrown("Specification tab not found in docs.json")
        ELSE
        LET groups == config.tabs[t].groups
            marked == {n \in 1..Len(groups) :
                          IsMarked(groups[n].group) /\ DateMatch(groups[n].group) # NULL}
            dates == [n \in 1..Len(groups) |->
                         LET match == DateMatch(groups[n].group)
                         IN  IF match # NULL THEN match[1] ELSE ""]
            dateGroups == Reverse(Sort(SelectSeq(dates, LAMBDA d : d # "")))
        IN  IF marked # {} THEN Returned(DateMatch(groups[MinOf(marked)].group)[1])
            ELSE IF Len(dateGroups) > 0 THEN Returned(dateGroups[1])
            ELSE Thrown("No versioned specification groups found")

getLatestSpecNavigation(config) ==
    LET t == FindSpecTab(config)
    IN  IF t = 0 THEN Thrown("Specification tab not found in docs.json")
        ELSE
        LET groups == config.tabs[t].groups
            marked == {n \in 1..Len(groups) : IsMarked(groups[n].group)}
        IN  IF marked = {} THEN Thrown("Latest specification group not found")
            ELSE Returned(groups[MinOf(marked)].pages)

\* ------------------------------------------------------------------------
\* State
\* ------------------------------------------------------------------------
VARIABLES
    pc,                  \* position of concatenateSpec / of the pure checks
    docsJson,            \* the file ../docs/docs.json
    includeFull,         \* the --full / -f flag
    fs,                  \* files read so far: path -> content or failure
    docsConfig,
    latestVersion,
    specNavigation,
    pagePaths,
    idx,                 \* position of the outer for loop in pagePaths
    cand,                \* position of the inner for loop in possiblePaths
    content,
    usedPath,
    concatenatedContent,
    processedCount,
    warnings,            \* page paths passed to console.warn in the loop
    schemaFiles,         \* result of readSchemaFiles
    written,             \* output files: path -> content written
    ioLog,               \* file operations in the order they happen
    exitCode,
    errorMessage,
    text,                \* input of cleanMdxContent
    doc,                 \* how text was built
    cleanOnce,
    cleanTwice,
    items,               \* input of extractPagePaths
    paths                \* output of extractPagePaths

runVars == <<docsJson, includeFull, fs, docsConfig, latestVersion, specNavigation,
             pagePaths, idx, cand, content, usedPath, concatenatedContent,
             processedCount, warnings, schemaFiles, written, ioLog, exitCode,
             errorMessage>>

cleanVars == <<text, doc, cleanOnce, cleanTwice>>

flattenVars == <<items, paths>>

vars == <<pc, runVars, cleanVars, flattenVars>>

\* ------------------------------------------------------------------------
\* Files
\* ------------------------------------------------------------------------
ReadFailed(outcome) == outcome = ENOENT

Frontmatter == <<"-", "-", "-", "\n", "title", "\n", "-", "-", "-", "\n">>

DocOne == Frontmatter \o <<"\n", "B1", "\n">>

DocTwo == Frontmatter \o <<"B2", "\n", "\n", "B3">>

EmptyFile == <<>>

BlankFile == <<" ", "\n">>

FileContents == {DocOne, DocTwo, EmptyFile, BlankFile, Frontmatter}

FileStates == FileContents \cup {ENOENT}

SchemaStates == {ENOENT, <<>>, <<"S">>}

DocsJsonPath == <<"..", "/", "docs", "/", "docs.json">>

BaseOutputPath == <<".", "/", "mcp-spec.txt">>

FullOutputPath == <<".", "/", "mcp-spec-full.txt">>

SchemaPath(version, file) == <<"..", "/", "schema", "/", version, "/", file>>

Separator == <<"\n", "\n", "-", "-", "-", "\n", "\n">>

possiblePaths(pagePath) == <<pagePath \o <<".mdx">>, pagePath \o <<".md">>, pagePath>>

PageTitle(pagePath, version) == ReplaceFirst(pagePath, <<"specification", "/", version, "/">>)

Section(pagePath, version, cleanContent) ==
    <<"#", " ">> \o PageTitle(pagePath, version) \o <<"\n", "\n">> \o cleanContent

IoEvent(op, path) == [op |-> op, path |-> path]

\* fs.readFile(path): the file is what it was at an earlier read, otherwise
\* the disk decides
ReadOutcomes(path, states) == IF path \in DOMAIN fs THEN {fs[path]} ELSE states

\* ------------------------------------------------------------------------
\* Inputs: navigation configurations
\* ------------------------------------------------------------------------
AbsLifecycle == <<"/", "basic", "/", "lifecycle">>

AbsTools == <<"/", "server", "/", "tools">>

RelLifecycle == <<"specification", "/", "2025-06-18", "/", "basic", "/", "lifecycle">>

RelTools == <<"specification", "/", "2025-06-18", "/", "server", "/", "tools">>

RelOldIndex == <<"specification", "/", "2024-11-05", "/", "index">>

LatestLabel == <<"2025-06-18", " (", "Latest", ")">>

Labels ==
    {LatestLabel, <<"Latest">>, <<"2024-11-05">>, <<"2025-03-26">>, <<"2025-11-25">>,
     <<"Draft">>}

ExampleTree == <<LeafItem(AbsLifecycle), LeafItem(AbsTools)>>

NestedTree ==
    <<LeafItem(RelLifecycle),
      GroupItem("Base Protocol",
                <<LeafItem(RelTools), GroupItem("Deep", <<LeafItem(RelLifecycle)>>)>>),
      BareItem("Empty")>>

OldTree == <<LeafItem(RelOldIndex)>>

DocsTab ==
    [tab |-> <<"Documentation">>,
     groups |-> <<[group |-> <<"Get Started">>, pages |-> <<LeafItem(<<"introduction">>)>>]>>]

SpecTab(label, groups) == [tab |-> label, groups |-> groups]

Group(label, pages) == [group |-> label, pages |-> pages]

Config(tabs) == [tabs |-> tabs]

\* ../docs/docs.json as fs.readFile and JSON.parse find it
DocsJsonFile(config) == [error |-> "", json |-> config]

MissingDocsJson == [error |-> "ENOENT", json |-> Config(<<>>)]

\* the configurations of the full run
RunConfigs ==
    {Config(<<DocsTab, SpecTab(<<"Specification">>, gs)>>) : gs \in
        {<<Group(LatestLabel, ExampleTree)>>,
         <<Group(<<"2024-11-05">>, OldTree), Group(LatestLabel, NestedTree)>>,
         <<Group(<<"Latest">>, NestedTree), Group(<<"2024-11-05">>, OldTree)>>,
         <<Group(<<"2024-11-05">>, OldTree), Group(<<"2025-06-18">>, NestedTree)>>,
         <<Group(<<"Latest">>, NestedTree)>>,
         <<Group(LatestLabel, <<>>)>>}}
    \cup {Config(<<DocsTab>>)}

\* the configurations of version selection
SelectTrees == {<<LeafItem(RelLifecycle)>>, <<LeafItem(AbsTools), GroupItem("G", <<LeafItem(RelTools)>>)>>, OldTree}

SelectGroups == {Group(l, t) : l \in Labels, t \in SelectTrees}

SelectConfigs ==
    {Config(<<DocsTab, SpecTab(name, gs)>>) :
        name \in {<<"Specification">>, <<"SPECIFICATION">>},
        gs \in SeqsUpTo(SelectGroups, MaxGroups)}
    \cup {Config(<<DocsTab>>)}

\* ------------------------------------------------------------------------
\* Initial states
\* ------------------------------------------------------------------------
InitRunVars ==
    /\ fs = <<>>
    /\ docsConfig = Config(<<>>)
    /\ latestVersion = ""
    /\ specNavigation = <<>>
    /\ pagePaths = <<>>
    /\ idx = 0
    /\ cand = 0
    /\ content = NULL
    /\ usedPath = NULL
    /\ concatenatedContent = <<>>
    /\ processedCount = 0
    /\ warnings = <<>>
    /\ schemaFiles = [ts |-> NULL, json |-> NULL]
    /\ written = <<>>
    /\ ioLog = <<>>
    /\ exitCode = -1
    /\ errorMessage = ""

IdleClean ==
    /\ text = <<>>
    /\ doc = [kind |-> "none", meta |-> <<>>, body |-> <<>>]
    /\ cleanOnce = NULL
    /\ cleanTwice = NULL

IdleFlatten == items = <<>> /\ paths = NULL

Init ==
    /\ pc = "start"
    /\ docsJson \in {DocsJsonFile(c) : c \in RunConfigs} \cup {MissingDocsJson}
    /\ includeFull \in BOOLEAN
    /\ InitRunVars
    /\ IdleClean
    /\ IdleFlatten

InitSelect ==
    /\ pc = "start"
    /\ docsJson \in {DocsJsonFile(c) : c \in SelectConfigs}
    /\ includeFull \in BOOLEAN
    /\ InitRunVars
    /\ IdleClean
    /\ IdleFlatten

\* ------------------------------------------------------------------------
\* concatenateSpec, one action per step between awaits
\* ------------------------------------------------------------------------
\* a catch block that reports the error and lets the process end normally
ExitWithoutStatus(msg) ==
    /\ pc' = "exited"
    /\ exitCode' = 0
    /\ errorMessage' = msg

\* catch (error) { console.error(...); process.exit(1); }
Exit1(msg) ==
    /\ pc' = "exited"
    /\ exitCode' = 1
    /\ errorMessage' = msg

\* fs.readFile('../docs/docs.json') and JSON.parse
ReadDocsJson ==
    /\ pc = "start"
    /\ ioLog' = Append(ioLog, IoEvent("read", DocsJsonPath))
    /\ IF docsJson.error # ""
       THEN /\ Exit1(docsJson.error)
            /\ UNCHANGED docsConfig
       ELSE /\ docsConfig' = docsJson.json
            /\ pc' = "findVersion"
            /\ UNCHANGED <<exitCode, errorMessage>>
    /\ UNCHANGED <<docsJson, includeFull, fs, latestVersion, specNavigation, pagePaths,
                   idx, cand, content, usedPath, concatenatedContent, processedCount,
                   warnings, schemaFiles, written>>
    /\ UNCHANGED <<cleanVars, flattenVars>>

FindVersion ==
    /\ pc = "findVersion"
    /\ LET r == findLatestSpecVersion(docsConfig)
       IN  IF r.error # ""
           THEN /\ Exit1(r.error)
                /\ UNCHANGED latestVersion
           ELSE /\ latestVersion' = r.value
                /\ pc' = "getNavigation"
                /\ UNCHANGED <<exitCode, errorMessage>>
    /\ UNCHANGED <<docsJson, includeFull, fs, docsConfig, specNavigation, pagePaths,
                   idx, cand, content, usedPath, concatenatedContent, processedCount,
                   warnings, schemaFiles, written, ioLog>>
    /\ UNCHANGED <<cleanVars, flattenVars>>

GetNavigation ==
    /\ pc = "getNavigation"
    /\ LET r == getLatestSpecNavigation(docsConfig)
       IN  IF r.error # ""
           THEN /\ Exit1(r.error)
                /\ UNCHANGED specNavigation
           ELSE /\ specNavigation' = r.value
                /\ pc' = "extract"
                /\ UNCHANGED <<exitCode, errorMessage>>
    /\ UNCHANGED <<docsJson, includeFull, fs, docsConfig, latestVersion, pagePaths,
                   idx, cand, content, usedPath, concatenatedContent, processedCount,
                   warnings, schemaFiles, written, ioLog>>
    /\ UNCHANGED <<cleanVars, flattenVars>>

\* const pagePaths = extractPagePaths(specNavigation); ... processedCount = 0
ExtractPages ==
    /\ pc = "extract"
    /\ pagePaths' = extractPagePaths(specNavigation, <<>>)
    /\ concatenatedContent' = <<>>
    /\ processedCount' = 0
    /\ idx' = 1
    /\ pc' = "loop"
    /\ UNCHANGED <<docsJson, includeFull, fs, docsConfig, latestVersion, specNavigation,
                   cand, content, usedPath, warnings, schemaFiles, written, ioLog,
                   exitCode, errorMessage>>
    /\ UNCHANGED <<cleanVars, flattenVars>>

\* for (const pagePath of pagePaths): next page, or leave the loop
NextPage ==
    /\ pc = "loop"
    /\ IF idx <= Len(pagePaths)
       THEN /\ content' = NULL
            /\ usedPath' = NULL
            /\ cand' = 1
            /\ pc' = "probe"
       ELSE /\ pc' = "writeBase"
            /\ UNCHANGED <<content, usedPath, cand>>
    /\ UNCHANGED <<docsJson, includeFull, fs, docsConfig, latestVersion, specNavigation,
                   pagePaths, idx, concatenatedContent, processedCount, warnings,
                   schemaFiles, written, ioLog, exitCode, errorMessage>>
    /\ UNCHANGED <<cleanVars, flattenVars>>

\* one pass of for (const possiblePath of possiblePaths) { try { readFile } ... }
TryRead ==
    /\ pc = "probe"
    /\ LET possiblePath == possiblePaths(pagePaths[idx])[cand]
       IN  \E outcome \in ReadOutcomes(possiblePath, FileStates) :
              /\ fs' = (possiblePath :> outcome) @@ fs
              /\ ioLog' = Append(ioLog, IoEvent("read", possiblePath))
              /\ IF ~ReadFailed(outcome)
                 THEN /\ content' = outcome
                      /\ usedPath' = possiblePath
                      /\ pc' = "process"
                      /\ UNCHANGED cand
                 ELSE /\ UNCHANGED <<content, usedPath>>
                      /\ IF cand < 3
                         THEN cand' = cand + 1 /\ pc' = "probe"
                         ELSE UNCHANGED cand /\ pc' = "process"
    /\ UNCHANGED <<docsJson, includeFull, docsConfig, latestVersion, specNavigation,
                   pagePaths, idx, concatenatedContent, processedCount, warnings,
                   schemaFiles, written, exitCode, errorMessage>>
    /\ UNCHANGED <<cleanVars, flattenVars>>

\* a push that puts the new section in front
UnshiftSection(list, section) == <<section>> \o list

\* concatenatedContent.push(section)
PushSection(list, section) == Append(list, section)

\* a miss that also leaves a placeholder section
MissingPageWithPlaceholder(pagePath) ==
    /\ warnings' = Append(warnings, pagePath)
    /\ concatenatedContent' =
           Append(concatenatedContent, Section(pagePath, latestVersion, <<"(missing)">>))
    /\ UNCHANGED processedCount

\* else { console.warn(`Could not find file for: ${pagePath}`) }
MissingPage(pagePath) ==
    /\ warnings' = Append(warnings, pagePath)
    /\ UNCHANGED <<concatenatedContent, processedCount>>

\* a page step that counts the page before looking at its cleaned content
ProcessPageCountingFirst ==
    /\ pc = "process"
    /\ LET pagePath == pagePaths[idx]
           cleanContent == cleanMdxContent(content)
       IN  IF Truthy(content) /\ Truthy(usedPath)
           THEN /\ processedCount' = processedCount + 1
                /\ IF Truthy(cleanContent)
                   THEN concatenatedContent' =
                            PushSection(concatenatedContent,
                                        Section(pagePath, latestVersion, cleanContent))
                   ELSE UNCHANGED concatenatedContent
                /\ UNCHANGED warnings
           ELSE MissingPage(pagePath)
    /\ idx' = idx + 1
    /\ pc' = "loop"
    /\ UNCHANGED <<docsJson, includeFull, fs, docsConfig, latestVersion, specNavigation,
                   pagePaths, cand, content, usedPath, schemaFiles, written, ioLog,
                   exitCode, errorMessage>>
    /\ UNCHANGED <<cleanVars, flattenVars>>

\* if (content && usedPath) { ... push ... } else { console.warn(...) }
ProcessPage ==
    /\ pc = "process"
    /\ LET pagePath == pagePaths[idx]
           cleanContent == cleanMdxContent(content)
       IN  IF Truthy(content) /\ Truthy(usedPath)
           THEN /\ IF Truthy(cleanContent)
                   THEN /\ concatenatedContent' =
                              PushSection(concatenatedContent,
                                          Section(pagePath, latestVersion, cleanContent))
                        /\ processedCount' = processedCount + 1
                   ELSE UNCHANGED <<concatenatedContent, processedCount>>
                /\ UNCHANGED warnings
           ELSE MissingPage(pagePath)
    /\ idx' = idx + 1
    /\ pc' = "loop"
    /\ UNCHANGED <<docsJson, includeFull, fs, docsConfig, latestVersion, specNavigation,
                   pagePaths, cand, content, usedPath, schemaFiles, written, ioLog,
                   exitCode, errorMessage>>
    /\ UNCHANGED <<cleanVars, flattenVars>>

\* a write of the primary artifact that is skipped when no section was emitted
WriteBaseUnlessEmpty ==
    /\ pc = "writeBase"
    /\ LET baseContent == Join(concatenatedContent, Separator)
       IN  IF concatenatedContent = <<>>
           THEN UNCHANGED <<written, ioLog>>
           ELSE /\ written' = (BaseOutputPath :> baseContent) @@ written
                /\ ioLog' = Append(ioLog, IoEvent("write", BaseOutputPath))
    /\ IF includeFull
       THEN pc' = "readSchemaTs" /\ UNCHANGED exitCode
       ELSE pc' = "done" /\ exitCode' = 0
    /\ UNCHANGED <<docsJson, includeFull, fs, docsConfig, latestVersion, specNavigation,
                   pagePaths, idx, cand, content, usedPath, concatenatedContent,
                   processedCount, warnings, schemaFiles, errorMessage>>
    /\ UNCHANGED <<cleanVars, flattenVars>>

\* const baseContent = concatenatedContent.join(...); await fs.writeFile(...)
WriteBase ==
    /\ pc = "writeBase"
    /\ LET baseContent == Join(concatenatedContent, Separator)
       IN  /\ written' = (BaseOutputPath :> baseContent) @@ written
           /\ ioLog' = Append(ioLog, IoEvent("write", BaseOutputPath))
    /\ IF includeFull
       THEN pc' = "readSchemaTs" /\ UNCHANGED exitCode
       ELSE pc' = "done" /\ exitCode' = 0
    /\ UNCHANGED <<docsJson, includeFull, fs, docsConfig, latestVersion, specNavigation,
                   pagePaths, idx, cand, content, usedPath, concatenatedContent,
                   processedCount, warnings, schemaFiles, errorMessage>>
    /\ UNCHANGED <<cleanVars, flattenVars>>

\* readSchemaFiles: try { results.ts = await fs.readFile(schema.ts) } catch {}
ReadSchemaTs ==
    /\ pc = "readSchemaTs"
    /\ LET p == SchemaPath(latestVersion, "schema.ts")
       IN  \E outcome \in ReadOutcomes(p, SchemaStates) :
              /\ fs' = (p :> outcome) @@ fs
              /\ ioLog' = Append(ioLog, IoEvent("read", p))
              /\ schemaFiles' = [ts |-> IF ReadFailed(outcome) THEN NULL ELSE outcome,
                                 json |-> NULL]
    /\ pc' = "readSchemaJson"
    /\ UNCHANGED <<docsJson, includeFull, docsConfig, latestVersion, specNavigation,
                   pagePaths, idx, cand, content, usedPath, concatenatedContent,
                   processedCount, warnings, written, exitCode, errorMessage>>
    /\ UNCHANGED <<cleanVars, flattenVars>>

\* readSchemaFiles: try { results.json = await fs.readFile(schema.json) } catch {}
ReadSchemaJson ==
    /\ pc = "readSchemaJson"
    /\ LET p == SchemaPath(latestVersion, "schema.json")
       IN  \E outcome \in ReadOutcomes(p, SchemaStates) :
              /\ fs' = (p :> outcome) @@ fs
              /\ ioLog' = Append(ioLog, IoEvent("read", p))
              /\ schemaFiles' = [schemaFiles EXCEPT
                                    !.json = IF ReadFailed(outcome) THEN NULL ELSE outcome]
    /\ pc' = "writeFull"
    /\ UNCHANGED <<docsJson, includeFull, docsConfig, latestVersion, specNavigation,
                   pagePaths, idx, cand, content, usedPath, concatenatedContent,
                   processedCount, warnings, written, exitCode, errorMessage>>
    /\ UNCHANGED <<cleanVars, flattenVars>>

SchemaTsSection(ts) ==
    <<"#", " ", "schema.ts", "\n", "\n", "<fence>typescript", "\n">> \o ts \o <<"\n", "<fence>">>

SchemaJsonSection(json) ==
    <<"#", " ", "schema.json", "\n", "\n", "<fence>json", "\n">> \o json \o <<"\n", "<fence>">>

\* const fullContent = [baseContent]; ... await fs.writeFile(fullOutputPath, ...)
WriteFull ==
    /\ pc = "writeFull"
    /\ LET baseContent == Join(concatenatedContent, Separator)
           withTs == IF Truthy(schemaFiles.ts)
                     THEN <<baseContent, SchemaTsSection(schemaFiles.ts)>>
                     ELSE <<baseContent>>
           fullContent == IF Truthy(schemaFiles.json)
                          THEN Append(withTs, SchemaJsonSection(schemaFiles.json))
                          ELSE withTs
       IN  /\ written' = (FullOutputPath :> Join(fullContent, Separator)) @@ written
           /\ ioLog' = Append(ioLog, IoEvent("write", FullOutputPath))
    /\ pc' = "done"
    /\ exitCode' = 0
    /\ UNCHANGED <<docsJson, includeFull, fs, docsConfig, latestVersion, specNavigation,
                   pagePaths, idx, cand, content, usedPath, concatenatedContent,
                   processedCount, warnings, schemaFiles, errorMessage>>
    /\ UNCHANGED <<cleanVars, flattenVars>>

Next ==
    \/ ReadDocsJson
    \/ FindVersion
    \/ GetNavigation
    \/ ExtractPages
    \/ NextPage
    \/ TryRead
    \/ ProcessPage
    \/ WriteBase
    \/ ReadSchemaTs
    \/ ReadSchemaJson
    \/ WriteFull

Spec == Init /\ [][Next]_vars

\* the run up to the first page read, over every configuration
NextSelect ==
    \/ ReadDocsJson
    \/ FindVersion
    \/ GetNavigation
    \/ ExtractPages

SpecSelect == InitSelect /\ [][NextSelect]_vars

\* ------------------------------------------------------------------------
\* cleanMdxContent on its own: every short text, and every document made of
\* a metadata block and a body
\* ------------------------------------------------------------------------
Alphabet == {"-", "\n", " ", "a"}

LineAlphabet == {"-", "a"}

BodyAlphabet == {"-", "\n", "a"}

MarkerLine == <<"-", "-", "-">>

Texts == SeqsUpTo(Alphabet, MaxLen)

MetaLines == SeqsUpTo(LineAlphabet, MaxLineLen) \ {MarkerLine}

Bodies == SeqsUpTo(BodyAlphabet, MaxBodyLen)

RECURSIVE Lines(_)
Lines(ls) == IF ls = <<>> THEN <<>> ELSE ls[1] \o <<"\n">> \o Lines(Tail(ls))

\* opening marker line, the metadata lines, closing marker line, body
Document(meta, body) == MarkerLine \o <<"\n">> \o Lines(meta) \o MarkerLine \o <<"\n">> \o body

InitClean ==
    /\ pc = "clean"
    /\ \/ /\ text \in Texts
          /\ doc = [kind |-> "text", meta |-> <<>>, body |-> <<>>]
       \/ \E meta \in SeqsUpTo(MetaLines, MaxMetaLines), body \in Bodies :
             /\ doc = [kind |-> "document", meta |-> meta, body |-> body]
             /\ text = Document(meta, body)
    /\ cleanOnce = NULL
    /\ cleanTwice = NULL
    /\ docsJson = MissingDocsJson
    /\ includeFull = FALSE
    /\ InitRunVars
    /\ IdleFlatten

CleanFirst ==
    /\ pc = "clean"
    /\ cleanOnce' = cleanMdxContent(text)
    /\ pc' = "cleaned"
    /\ UNCHANGED <<text, doc, cleanTwice, runVars, flattenVars>>

CleanSecond ==
    /\ pc = "cleaned"
    /\ cleanTwice' = cleanMdxContent(cleanOnce)
    /\ pc' = "recleaned"
    /\ UNCHANGED <<text, doc, cleanOnce, runVars, flattenVars>>

NextClean ==
    \/ CleanFirst
    \/ CleanSecond

SpecClean == InitClean /\ [][NextClean]_vars

\* ------------------------------------------------------------------------
\* extractPagePaths on its own: every page tree with at most MaxNodes nodes
\* ------------------------------------------------------------------------
FlattenRefs == {AbsTools, RelLifecycle, <<"guides", "/", "/", "intro">>}

RECURSIVE ForestOfSize(_)
ForestOfSize(n) ==
    IF n = 0 THEN {<<>>}
    ELSE UNION {
           {<<item>> \o rest :
               item \in IF k = 1
                        THEN {LeafItem(r) : r \in FlattenRefs}
                                 \cup {BareItem("G"), GroupItem("G", <<>>)}
                        ELSE {GroupItem("G", f) : f \in ForestOfSize(k - 1)},
               rest \in ForestOfSize(n - k)} : k \in 1..n}

Trees == UNION {ForestOfSize(n) : n \in 0..MaxNodes}

InitFlatten ==
    /\ pc = "flatten"
    /\ items \in Trees
    /\ paths = NULL
    /\ docsJson = MissingDocsJson
    /\ includeFull = FALSE
    /\ InitRunVars
    /\ IdleClean

Flatten ==
    /\ pc = "flatten"
    /\ paths' = extractPagePaths(items, <<>>)
    /\ pc' = "flattened"
    /\ UNCHANGED <<items, runVars, cleanVars>>

NextFlatten ==
    \/ Flatten

SpecFlatten == InitFlatten /\ [][NextFlatten]_vars

\* ------------------------------------------------------------------------
\* Page trees by position: the leaf strings of a tree and their order
\* ------------------------------------------------------------------------
\* positions (index paths) of the leaf strings of a page list
RECURSIVE LeafPositions(_)
LeafPositions(tree) ==
    UNION {IF tree[n].type = "string" THEN {<<n>>}
           ELSE IF "pages" \in DOMAIN tree[n]
                THEN {<<n>> \o q : q \in LeafPositions(tree[n].pages)}
                ELSE {} : n \in 1..Len(tree)}

RECURSIVE NodeAt(_, _)
NodeAt(tree, pos) ==
    IF Len(pos) = 1 THEN tree[pos[1]] ELSE NodeAt(tree[pos[1]].pages, Tail(pos))

\* depth-first, left-to-right rank of a leaf position
LeafRank(tree, pos) == 1 + Cardinality({q \in LeafPositions(tree) : LexLess(q, pos)})

\* the leaf strings of a tree in depth-first, left-to-right order
DfsLeaves(tree) ==
    [k \in 1..Cardinality(LeafPositions(tree)) |->
        NodeAt(tree, CHOOSE pos \in LeafPositions(tree) : LeafRank(tree, pos) = k).value]

\* ------------------------------------------------------------------------
\* C8: extractPagePaths returns one logical path per leaf string of the
\* tree, in depth-first pre-order, so that a subgroup's leaves are contiguous
\* and in declared order at the subgroup's position; its length is the
\* number of leaf strings, and an empty tree or subgroup yields no path.
\* ------------------------------------------------------------------------
C8_FlattenIsPreorder ==
    pc = "flattened" =>
        /\ Len(paths) = Cardinality(LeafPositions(items))
        /\ \A pos \in LeafPositions(items) :
              paths[LeafRank(items, pos)] = FullPath(NodeAt(items, pos).value, <<>>)
        /\ (items = <<>> => paths = <<>>)

C8_Witness ==
    /\ pc = "flattened"
    /\ Len(items) = 2
    /\ items[1].type = "object"
    /\ "pages" \in DOMAIN items[1]
    /\ Len(items[1].pages) = 2
    /\ items[2].type = "string"
    /\ Len(paths) = 3
    /\ paths[1] # paths[3]

\* ------------------------------------------------------------------------
\* C9: for a document made of an opening marker line, metadata lines none
\* of which is the marker line, a closing marker line and a body B,
\* cleanMdxContent returns exactly B trimmed.
\* ------------------------------------------------------------------------
C9_RoundTrip ==
    (pc = "cleaned" /\ doc.kind = "document") => cleanOnce = Trim(doc.body)

\* ------------------------------------------------------------------------
\* C10: cleanMdxContent is idempotent on every text.
\* ------------------------------------------------------------------------
C10_Idempotent ==
    pc = "recleaned" => cleanTwice = cleanOnce

\* C10 as amended: cleanMdxContent is idempotent on every text whose
\* normalized output does not itself begin with a "---" ... "---" block.
C10_IdempotentWithoutLeadingBlock ==
    (pc = "recleaned" /\ FrontmatterMatchEnd(cleanOnce) = 0) => cleanTwice = cleanOnce

C10_Witness ==
    /\ pc = "recleaned"
    /\ FrontmatterMatchEnd(text) > 0
    /\ cleanOnce # <<>>
    /\ FrontmatterMatchEnd(cleanOnce) = 0
    /\ cleanTwice = cleanOnce

\* the first line of a text: everything before its first "\n"
FirstLine(s) ==
    LET breaks == {p \in 1..Len(s) : s[p] = "\n"}
    IN  IF breaks = {} THEN s ELSE SubSeq(s, 1, MinOf(breaks) - 1)

\* ------------------------------------------------------------------------
\* C11: when the first line of the text is not exactly the marker line
\* "---" (a "---" ... "---" block that occurs later, or a text that starts
\* with the marker characters followed by other characters, included),
\* cleanMdxContent returns the input with only its surrounding whitespace
\* trimmed.
\* ------------------------------------------------------------------------
C11_OnlyLeadingMarkerLineStripped ==
    (pc = "cleaned" /\ FirstLine(text) # MarkerLine) => cleanOnce = Trim(text)

\* ------------------------------------------------------------------------
\* What the files read so far say about a page
\* ------------------------------------------------------------------------
AllCandidatesFailed(pagePath) ==
    \A c \in 1..3 :
        /\ possiblePaths(pagePath)[c] \in DOMAIN fs
        /\ ReadFailed(fs[possiblePaths(pagePath)[c]])

\* content of the first candidate that could be read, NULL if none
ResolvedContent(pagePath) ==
    LET hits == {c \in 1..3 : /\ possiblePaths(pagePath)[c] \in DOMAIN fs
                              /\ ~ReadFailed(fs[possiblePaths(pagePath)[c]])}
    IN  IF hits = {} THEN NULL ELSE fs[possiblePaths(pagePath)[MinOf(hits)]]

EmitsSection(pagePath) ==
    /\ Truthy(ResolvedContent(pagePath))
    /\ Truthy(cleanMdxContent(ResolvedContent(pagePath)))

\* the sections of a list of pages, page by page in the order of the list
RECURSIVE SectionsFor(_, _)
SectionsFor(pages, version) ==
    IF pages = <<>> THEN <<>>
    ELSE (IF EmitsSection(pages[1])
          THEN <<Section(pages[1], version, cleanMdxContent(ResolvedContent(pages[1])))>>
          ELSE <<>>) \o SectionsFor(Tail(pages), version)

InLoop == pc \in {"loop", "probe", "process"}

AfterLoop == pc \in {"writeBase", "readSchemaTs", "readSchemaJson", "writeFull", "done"}

SelectionOver == pc \notin {"start", "findVersion", "getNavigation"}

BaseWritten == BaseOutputPath \in DOMAIN written

SpecTabPresent == docsJson.error = "" /\ FindSpecTab(docsJson.json) # 0

SpecGroups == docsJson.json.tabs[FindSpecTab(docsJson.json)].groups

\* ------------------------------------------------------------------------
\* C1: the sections appear in the depth-first, left-to-right order in which
\* their leaf pages occur in the selected group's page tree, at every point
\* of the aggregation loop and in the primary artifact.
\* ------------------------------------------------------------------------
C1_SectionsInNavigationOrder ==
    (InLoop \/ AfterLoop) =>
        LET leaves == DfsLeaves(specNavigation)
            logical == [k \in 1..Len(leaves) |-> FullPath(leaves[k], <<>>)]
        IN  /\ idx - 1 <= Len(logical)
            /\ concatenatedContent =
                  SectionsFor(SubSeq(logical, 1, idx - 1), latestVersion)
            /\ BaseWritten =>
                  written[BaseOutputPath] =
                      Join(SectionsFor(logical, latestVersion), Separator)

C1_Witness ==
    /\ pc = "done"
    /\ specNavigation = NestedTree
    /\ Len(concatenatedContent) = 3
    /\ concatenatedContent[1] # concatenatedContent[2]
    /\ concatenatedContent[1] = concatenatedContent[3]

\* ------------------------------------------------------------------------
\* C4: a page with no readable file under any candidate gets no section and
\* no placeholder, a warning naming it is recorded, the loop goes on with
\* the next page, and the primary artifact holds the sections of the other
\* pages in their unchanged order.
\* ------------------------------------------------------------------------
C4_MissingPageSkipped ==
    /\ [][(pc = "process" /\ AllCandidatesFailed(pagePaths[idx])) =>
             /\ concatenatedContent' = concatenatedContent
             /\ warnings' = Append(warnings, pagePaths[idx])
             /\ idx' = idx + 1
             /\ pc' = "loop"
             /\ exitCode' = exitCode]_vars
    /\ [](BaseWritten =>
             /\ \A n \in 1..Len(pagePaths) :
                   AllCandidatesFailed(pagePaths[n]) => pagePaths[n] \in Range(warnings)
             /\ written[BaseOutputPath] =
                   Join(SectionsFor(SelectSeq(pagePaths, LAMBDA q : ~AllCandidatesFailed(q)),
                                    latestVersion),
                        Separator))

C4_Witness ==
    /\ pc = "done"
    /\ Len(pagePaths) = 3
    /\ AllCandidatesFailed(pagePaths[2])
    /\ warnings = <<pagePaths[2]>>
    /\ Len(concatenatedContent) = 2

\* ------------------------------------------------------------------------
\* C5: the run ends with a non-zero status when the specification tab is
\* absent or no group qualifies as the current version; missing pages and
\* read failures, any number of them, never cause a non-zero status: once
\* the configuration is accepted the run completes normally.
\* ------------------------------------------------------------------------
NoGroupQualifies ==
    \A n \in 1..Len(SpecGroups) :
        ~IsMarked(SpecGroups[n].group) /\ DateMatch(SpecGroups[n].group) = NULL

ConfigurationErrors ==
    {"ENOENT", "Specification tab not found in docs.json",
     "No versioned specification groups found", "Latest specification group not found"}

FairSpec == Spec /\ WF_vars(Next)

\* ------------------------------------------------------------------------
\* C6: the candidates are tried in the order .mdx, .md, bare path; the
\* content used is that of the first candidate that exists, no later
\* candidate is read, and the page is a miss only when none of the three
\* exists.
\* ------------------------------------------------------------------------
C6_FirstExistingCandidate ==
    /\ pc = "process" =>
          LET cands == possiblePaths(pagePaths[idx])
              tried == IF usedPath = NULL THEN 3 ELSE cand
          IN  /\ Len(ioLog) >= tried
              /\ \A c \in 1..tried :
                    ioLog[Len(ioLog) - tried + c] = IoEvent("read", cands[c])
              /\ \A c \in 1..(tried - 1) : ReadFailed(fs[cands[c]])
              /\ usedPath # NULL =>
                    /\ usedPath = cands[cand]
                    /\ ~ReadFailed(fs[usedPath])
                    /\ content = fs[usedPath]
    /\ \A n \in 1..Len(warnings) : AllCandidatesFailed(warnings[n])

\* ------------------------------------------------------------------------
\* C7: for the tab "Specification" with the single group
\* "2025-06-18 (Latest)" and the pages /basic/lifecycle and /server/tools,
\* found as <base>/basic/lifecycle.mdx and <base>/server/tools.mdx, the
\* primary artifact is
\* "# basic/lifecycle\n\n<body1>\n\n---\n\n# server/tools\n\n<body2>".
\* ------------------------------------------------------------------------
ExampleConfig ==
    Config(<<DocsTab, SpecTab(<<"Specification">>, <<Group(LatestLabel, ExampleTree)>>)>>)

ExampleLifecycleFile == SpecRoot \o <<"/", "basic", "/", "lifecycle", ".mdx">>

ExampleToolsFile == SpecRoot \o <<"/", "server", "/", "tools", ".mdx">>

\* the disk holds the two files of the example and nothing else
ExampleDisk ==
    \A f \in DOMAIN fs :
        fs[f] = IF f = ExampleLifecycleFile THEN DocOne
                ELSE IF f = ExampleToolsFile THEN DocTwo
                ELSE ENOENT

ExampleArtifact ==
    <<"#", " ", "basic", "/", "lifecycle", "\n", "\n", "B1">> \o Separator
        \o <<"#", " ", "server", "/", "tools", "\n", "\n", "B2", "\n", "\n", "B3">>

C7_EndToEndExample ==
    (pc = "done" /\ docsConfig = ExampleConfig /\ ExampleDisk) =>
        written[BaseOutputPath] = ExampleArtifact

\* ------------------------------------------------------------------------
\* C2: when exactly one group of the specification tab carries the marker
\* "Latest" (with its date token), the run uses that group for the version
\* id and the page tree, whatever the date tokens, labels and positions of
\* the other groups.
\* ------------------------------------------------------------------------
LatestGroups == {n \in 1..Len(SpecGroups) : Includes(SpecGroups[n].group, "Latest")}

MarkedGroups == {n \in 1..Len(SpecGroups) : IsMarked(SpecGroups[n].group)}

DatedGroups == {n \in 1..Len(SpecGroups) : DateMatch(SpecGroups[n].group) # NULL}

C2_LatestGroupUsed ==
    (SelectionOver /\ SpecTabPresent /\ Cardinality(LatestGroups) = 1
        /\ LatestGroups \subseteq DatedGroups) =>
        LET g == CHOOSE n \in LatestGroups : TRUE
        IN  /\ pc # "exited"
            /\ <<latestVersion>> = DateMatch(SpecGroups[g].group)
            /\ specNavigation = SpecGroups[g].pages

\* ------------------------------------------------------------------------
\* C3: with several dated groups and no marked group, version selection
\* succeeds and the run builds the group whose date token is greatest: its
\* date is the version id and its pages are the page tree.
\* ------------------------------------------------------------------------
C3_GreatestDateBuilt ==
    (SelectionOver /\ SpecTabPresent /\ MarkedGroups = {} /\ Cardinality(DatedGroups) >= 2) =>
        /\ pc # "exited"
        /\ \E g \in DatedGroups :
              /\ <<latestVersion>> = DateMatch(SpecGroups[g].group)
              /\ \A h \in DatedGroups :
                    ~StrLess(latestVersion, DateMatch(SpecGroups[h].group)[1])
              /\ specNavigation = SpecGroups[g].pages

\* ------------------------------------------------------------------------
\* C12: when the supplementary artifact is requested, it is the primary
\* artifact's content, then the fenced schema.ts section if that file is
\* present, then the fenced schema.json section if that file is present,
\* joined by the separator; with either or both absent it is still written
\* without that section and the run ends normally.
\* ------------------------------------------------------------------------
SchemaPresent(file) ==
    /\ SchemaPath(latestVersion, file) \in DOMAIN fs
    /\ ~ReadFailed(fs[SchemaPath(latestVersion, file)])

SchemaSectionsOnDisk ==
    (IF SchemaPresent("schema.ts")
     THEN <<SchemaTsSection(fs[SchemaPath(latestVersion, "schema.ts")])>> ELSE <<>>)
    \o (IF SchemaPresent("schema.json")
        THEN <<SchemaJsonSection(fs[SchemaPath(latestVersion, "schema.json")])>> ELSE <<>>)

C12_FullArtifact ==
    (pc = "done" /\ includeFull) =>
        /\ exitCode = 0
        /\ BaseWritten
        /\ FullOutputPath \in DOMAIN written
        /\ written[FullOutputPath] =
              Join(<<written[BaseOutputPath]>> \o SchemaSectionsOnDisk, Separator)

\* ------------------------------------------------------------------------
\* C13: every run that gets past version selection writes the primary
\* artifact exactly once, with or without the full flag and whatever pages
\* are missing, and before any schema file is read; the supplementary
\* artifact is written only when the full flag was given; a run that aborts
\* on a configuration error reads no page and writes neither artifact.
\* ------------------------------------------------------------------------
PastSelection == pc = "extract" \/ InLoop \/ AfterLoop

WritesTo(path) == {n \in 1..Len(ioLog) : ioLog[n] = IoEvent("write", path)}

SchemaReads ==
    {n \in 1..Len(ioLog) :
        /\ ioLog[n].op = "read"
        /\ Len(ioLog[n].path) >= 3
        /\ ioLog[n].path[3] = "schema"}

C13_ArtifactWrites ==
    /\ [](Cardinality(WritesTo(BaseOutputPath)) <= 1)
    /\ [](pc = "done" =>
             /\ Cardinality(WritesTo(BaseOutputPath)) = 1
             /\ BaseWritten
             /\ (includeFull => Cardinality(WritesTo(FullOutputPath)) = 1))
    /\ [](\A n \in SchemaReads : \E m \in WritesTo(BaseOutputPath) : m < n)
    /\ []((WritesTo(FullOutputPath) # {} \/ FullOutputPath \in DOMAIN written) => includeFull)
    /\ [](pc = "exited" =>
             /\ written = <<>>
             /\ fs = <<>>
             /\ ioLog = <<IoEvent("read", DocsJsonPath)>>)
    /\ (PastSelection ~> (pc = "done" /\ Cardinality(WritesTo(BaseOutputPath)) = 1))

C13_Witness ==
    /\ pc = "done"
    /\ includeFull
    /\ warnings # <<>>
    /\ concatenatedContent # <<>>
    /\ Cardinality(SchemaReads) = 2
    /\ DOMAIN written = {BaseOutputPath, FullOutputPath}

\* ------------------------------------------------------------------------
\* C14: in every run that does not abort, the version id and the page tree
\* come from one and the same group of the specification tab: the version
\* is the date token of the group whose pages are aggregated.
\* ------------------------------------------------------------------------
C14_VersionAndPagesFromOneGroup ==
    PastSelection =>
        \E g \in 1..Len(SpecGroups) :
            /\ DateMatch(SpecGroups[g].group) = <<latestVersion>>
            /\ SpecGroups[g].pages = specNavigation

SilentlySkipped(pagePath) ==
    /\ Truthy(ResolvedContent(pagePath))
    /\ ~Truthy(cleanMdxContent(ResolvedContent(pagePath)))

SkippedSoFar == {k \in 1..(idx - 1) : SilentlySkipped(pagePaths[k])}

====
